---- MODULE Spec2Model ----
(***************************************************************************)
(* Verification model of the emotion-detector repository:                  *)
(*   config.py      EmotionWeights, TrackerConfig, merge_emotion_weights    *)
(*   engagement.py  EngagementTracker (update, _score_for_emotions)         *)
(*   main.py        run (the frame loop), _log_frame                        *)
(*                                                                         *)
(* Python floats are modelled as exact rationals <<numerator, denominator>> *)
(* in lowest terms, so every statement below is about the arithmetic the    *)
(* code writes down, not about binary rounding.  A detection is modelled by *)
(* its emotions mapping (the bounding box is never read by the tracker); a  *)
(* Python dict is a sequence of entries in insertion order with distinct    *)
(* keys, because the code depends on dict iteration order.                  *)
(***************************************************************************)
EXTENDS Integers, Sequences, FiniteSets

VARIABLES
    config,          \* EngagementTracker.config (TrackerConfig)
    scores,          \* EngagementTracker._scores (deque, maxlen = history_size)
    smoothed_score,  \* EngagementTracker._smoothed_score (None or a number)
    summary,         \* the FrameSummary returned by the latest update call
    detections,      \* the argument of the latest update call
    nCalls,          \* number of update calls made on the tracker
    raws,            \* raw_score of every update call so far, in call order
    \* merge_emotion_weights (config.py)
    base,            \* argument base
    overrides,       \* argument overrides: None, or a dict category -> names
    merged,          \* the returned EmotionWeights (None before the call returns)
    \* run (main.py)
    pc,              \* position of run in its frame loop
    display,         \* local display
    frame_counter,   \* local frame_counter
    max_frames,      \* parsed_args.max_frames: None or <<n>>
    log_writer,      \* whether --log-file gave a csv writer
    stream_len,      \* frames the video source delivers before a read fails
    reads,           \* frames read successfully so far (the current frame's number)
    read_failed,     \* "Video stream ended or cannot be read." was printed
    frame_dets,      \* local detections of the current frame
    updates,         \* frame numbers passed to tracker.update, in call order
    log_rows,        \* rows written to the csv log
    render_log,      \* every pass through the display block, with its outcome
    released         \* what the finally block released

trackerVars == <<config, scores, smoothed_score, summary, detections, nCalls, raws>>

mergeVars == <<base, overrides, merged>>

runVars == <<pc, display, frame_counter, max_frames, log_writer, stream_len, reads,
             read_failed, frame_dets, updates, log_rows, render_log, released>>

vars == <<trackerVars, mergeVars, runVars>>

----------------------------------------------------------------------------
(* Bounds of the model *)

MaxFaces     == 2   \* detections in one frame (rich single-frame inputs)
MaxEntries   == 2   \* emotion entries in one frame, summed over its detections
MaxIntensity == 2   \* intensities are 0..MaxIntensity units
MaxUpdates   == 3   \* update calls in one tracker's life
MaxHistory   == 2   \* history_size ranges over 1..MaxHistory
MaxNames     == 2   \* names in one category list given to merge_emotion_weights
MaxStream    == 3   \* frames a video source delivers; also the largest --max-frames

(* Program constants *)
DefaultHistorySize == 150

DefaultSmoothingFactor == <<1, 5>>   \* 0.2

----------------------------------------------------------------------------
(* Numbers: exact rationals *)

None == <<>>

Abs(x) == IF x < 0 THEN -x ELSE x

RECURSIVE GCD(_, _)
GCD(a, b) == IF b = 0 THEN a ELSE GCD(b, a % b)

Rat(n, d) ==
    LET Reduce(s, g) == <<(s * n) \div g, (s * d) \div g>>
    IN  Reduce(IF d < 0 THEN -1 ELSE 1, GCD(Abs(n), Abs(d)))

Zero == <<0, 1>>
Half == <<1, 2>>
One  == <<1, 1>>

Num(i) == <<i, 1>>

RAdd(a, b) == Rat(a[1] * b[2] + b[1] * a[2], a[2] * b[2])
RSub(a, b) == Rat(a[1] * b[2] - b[1] * a[2], a[2] * b[2])
RMul(a, b) == Rat(a[1] * b[1], a[2] * b[2])
RDiv(a, b) == Rat(a[1] * b[2], a[2] * b[1])
RLe(a, b)  == a[1] * b[2] <= b[1] * a[2]
RLt(a, b)  == a[1] * b[2] < b[1] * a[2]

RECURSIVE RSum(_)
RSum(s) == IF s = <<>> THEN Zero ELSE RAdd(RSum(SubSeq(s, 1, Len(s) - 1)), s[Len(s)])

\* statistics.mean of a non-empty sequence
mean(s) == RDiv(RSum(s), Num(Len(s)))

----------------------------------------------------------------------------
(* Emotion names and str.lower *)

Names == {"happy", "Happy", "sad"}

Lower(s) == IF s = "Happy" THEN "happy" ELSE s

Absent == "<None>"   \* dominant_emotion = None

Range(s) == {s[i] : i \in 1..Len(s)}

----------------------------------------------------------------------------
(* config.py: EmotionWeights and TrackerConfig *)

DefaultWeights ==
    [positive |-> <<"happy", "surprise", "excited", "engaged">>,
     neutral  |-> <<"neutral", "calm">>,
     negative |-> <<"sad", "angry", "disgust", "fear", "bored", "contempt", "tired">>]

\* lookup[emotion] = value, for every emotion of the iterable, in order
RECURSIVE AssignAll(_, _, _)
AssignAll(lookup, emotions, value) ==
    IF emotions = <<>> THEN lookup
    ELSE LET k == Head(emotions)
             d == [x \in (DOMAIN lookup) \cup {k} |-> IF x = k THEN value ELSE lookup[x]]
         IN  AssignAll(d, Tail(emotions), value)

as_lookup(w) ==
    AssignAll(AssignAll(AssignAll(<<>>, w.positive, One), w.neutral, Half), w.negative, Zero)

weight_for(cfg, emotion) ==
    LET weights == as_lookup(cfg.emotion_weights)
    IN  IF emotion \in DOMAIN weights THEN weights[emotion] ELSE Half

Categories == {"positive", "neutral", "negative"}

\* every name of the model in sorted() order (upper case sorts before lower case)
SortedNames ==
    <<"Happy", "angry", "bored", "calm", "contempt", "disgust", "engaged", "excited",
      "fear", "happy", "neutral", "sad", "surprise", "tired">>

InSet(S) == [n \in Range(SortedNames) |-> n \in S]

\* tuple(sorted({v.lower() for v in values}))
normalise(values) ==
    LET lowered == InSet({Lower(values[i]) : i \in 1..Len(values)})
        Keep(n) == lowered[n]
    IN  SelectSeq(SortedNames, Keep)

\* overrides.get(category, default)
Get(items, category, default) ==
    IF category \in DOMAIN items THEN items[category] ELSE default

merge_emotion_weights(b, o) ==
    IF o.is_none \/ DOMAIN o.items = {} THEN b
    ELSE [positive |-> normalise(Get(o.items, "positive", b.positive)),
          neutral  |-> normalise(Get(o.items, "neutral", b.neutral)),
          negative |-> normalise(Get(o.items, "negative", b.negative))]

----------------------------------------------------------------------------
(* engagement.py: EngagementTracker *)

RECURSIVE SumIntensity(_)
SumIntensity(emotions) ==
    IF emotions = <<>> THEN 0
    ELSE SumIntensity(SubSeq(emotions, 1, Len(emotions) - 1)) + emotions[Len(emotions)].intensity

RECURSIVE WeightedTotal(_, _)
WeightedTotal(cfg, emotions) ==
    IF emotions = <<>> THEN Zero
    ELSE LET e == emotions[Len(emotions)]
         IN  RAdd(WeightedTotal(cfg, SubSeq(emotions, 1, Len(emotions) - 1)),
                  RMul(weight_for(cfg, Lower(e.emotion)), Num(e.intensity)))

score_unweighted(cfg, emotions) ==
    LET total_intensity == SumIntensity(emotions)
    IN  IF total_intensity <= 0 THEN Zero
        ELSE RDiv(WeightedTotal(cfg, emotions), Num(Len(emotions)))

score_for_emotions(cfg, emotions) ==
    LET total_intensity == SumIntensity(emotions)
    IN  IF total_intensity <= 0 THEN Zero
        ELSE RDiv(WeightedTotal(cfg, emotions), Num(total_intensity))

\* frame_scores after the loop over the detections
RECURSIVE frame_scores(_, _)
frame_scores(cfg, dets) ==
    IF dets = <<>> THEN <<>>
    ELSE LET rest == frame_scores(cfg, SubSeq(dets, 1, Len(dets) - 1))
             emotions == dets[Len(dets)]
         IN  IF emotions = <<>> THEN rest
             ELSE Append(rest, score_for_emotions(cfg, emotions))

\* Counter: emotion_totals[key] += value (a new key is inserted at the end)
CounterAdd(totals, key, value) ==
    IF \E i \in 1..Len(totals) : totals[i].emotion = key
    THEN [i \in 1..Len(totals) |->
            IF totals[i].emotion = key
            THEN [emotion |-> key, total |-> totals[i].total + value]
            ELSE totals[i]]
    ELSE Append(totals, [emotion |-> key, total |-> value])

RECURSIVE AddEmotions(_, _)
AddEmotions(totals, emotions) ==
    IF emotions = <<>> THEN totals
    ELSE AddEmotions(CounterAdd(totals, Lower(Head(emotions).emotion), Head(emotions).intensity),
                     Tail(emotions))

\* emotion_totals after the loop over the detections
RECURSIVE emotion_totals(_)
emotion_totals(dets) ==
    IF dets = <<>> THEN <<>>
    ELSE AddEmotions(emotion_totals(SubSeq(dets, 1, Len(dets) - 1)), dets[Len(dets)])

raw_score_unknown_is_half(cfg, dets) ==
    LET fs == frame_scores(cfg, dets)
    IN  IF fs # <<>> THEN RDiv(RSum(fs), Num(Len(fs))) ELSE Half

\* raw_score: the mean of the per-face scores, 0.0 when there is none
raw_score_of(cfg, dets) ==
    LET fs == frame_scores(cfg, dets)
    IN  IF fs # <<>> THEN RDiv(RSum(fs), Num(Len(fs))) ELSE Zero

deque_append_unbounded(q, x, maxlen) == Append(q, x)

\* deque(maxlen=...).append
deque_append(q, x, maxlen) ==
    IF maxlen = 0 THEN q
    ELSE IF Len(q) = maxlen THEN Append(Tail(q), x)
    ELSE Append(q, x)

smooth_additive(prev, raw, alpha) ==
    IF prev = None THEN raw
    ELSE RAdd(prev, RMul(alpha, raw))

smooth_falsy(prev, raw, alpha) ==
    IF prev = None \/ prev = Zero THEN raw
    ELSE RAdd(RMul(RSub(One, alpha), prev), RMul(alpha, raw))

\* the new self._smoothed_score
smooth(prev, raw, alpha) ==
    IF prev = None THEN raw
    ELSE RAdd(RMul(RSub(One, alpha), prev), RMul(alpha, raw))

RECURSIVE SumTotals(_)
SumTotals(totals) ==
    IF totals = <<>> THEN 0
    ELSE SumTotals(SubSeq(totals, 1, Len(totals) - 1)) + totals[Len(totals)].total

RECURSIVE MaxTotal(_)
MaxTotal(totals) ==
    IF totals = <<>> THEN 0
    ELSE LET m == MaxTotal(Tail(totals))
         IN  IF Head(totals).total > m THEN Head(totals).total ELSE m

distribution_by_peak(totals) ==
    LET total_emotion_intensity == SumTotals(totals)
    IN  IF total_emotion_intensity > 0
        THEN [i \in 1..Len(totals) |->
                [emotion |-> totals[i].emotion,
                 share   |-> Rat(totals[i].total, MaxTotal(totals))]]
        ELSE <<>>

distribution_of(totals) ==
    LET total_emotion_intensity == SumTotals(totals)
    IN  IF total_emotion_intensity > 0
        THEN [i \in 1..Len(totals) |->
                [emotion |-> totals[i].emotion,
                 share   |-> Rat(totals[i].total, total_emotion_intensity)]]
        ELSE <<>>

dominant_last_max(dist) ==
    IF dist = <<>> THEN Absent
    ELSE LET i == CHOOSE i \in 1..Len(dist) :
                    /\ \A j \in 1..Len(dist) : RLe(dist[j].share, dist[i].share)
                    /\ \A j \in (i + 1)..Len(dist) : dist[j].share # dist[i].share
         IN  dist[i].emotion

\* max(distribution, key=distribution.get): the first key with the largest value
dominant_of(dist) ==
    IF dist = <<>> THEN Absent
    ELSE LET i == CHOOSE i \in 1..Len(dist) :
                    /\ \A j \in 1..Len(dist) : RLe(dist[j].share, dist[i].share)
                    /\ \A j \in 1..(i - 1) : dist[j].share # dist[i].share
         IN  dist[i].emotion

\* the FrameSummary and the tracker state that update(dets) produces
update(cfg, q, prev, dets) ==
    LET raw_score       == raw_score_of(cfg, dets)
        q2              == deque_append(q, raw_score, cfg.history_size)
        sm              == smooth(prev, raw_score, cfg.smoothing_factor)
        rolling_average == IF q2 # <<>> THEN mean(q2) ELSE Zero
        distribution    == distribution_of(emotion_totals(dets))
    IN  [scores         |-> q2,
         smoothed_score |-> sm,
         summary        |-> [raw_score            |-> raw_score,
                             \* self._smoothed_score or 0.0
                             smoothed_score       |-> IF sm = Zero THEN Zero ELSE sm,
                             rolling_average      |-> rolling_average,
                             dominant_emotion     |-> dominant_of(distribution),
                             emotion_distribution |-> distribution]]

----------------------------------------------------------------------------
(* Inputs: the frames a detector can hand to update *)

Intensities == 0..MaxIntensity

Entry(n, v) == [emotion |-> n, intensity |-> v]

Keys(emotions) == {emotions[i].emotion : i \in 1..Len(emotions)}

Min(a, b) == IF a < b THEN a ELSE b

\* dicts of exactly m entries
RECURSIVE Mappings(_)
Mappings(m) ==
    IF m = 0 THEN {<<>>}
    ELSE UNION { {Append(s, Entry(n, v)) : n \in Names \ Keys(s), v \in Intensities}
                 : s \in Mappings(m - 1) }

MappingsUpTo(e) == UNION {Mappings(m) : m \in 0..Min(e, Cardinality(Names))}

\* lists of exactly f detections holding at most e entries in total
RECURSIVE FramesExact(_, _)
FramesExact(f, e) ==
    IF f = 0 THEN {<<>>}
    ELSE UNION { {<<m>> \o r : r \in FramesExact(f - 1, e - Len(m))} : m \in MappingsUpTo(e) }

Frames(f, e) == UNION {FramesExact(k, e) : k \in 0..f}

FrameSet == Frames(MaxFaces, MaxEntries)

\* the frames of a long stream: at most one face showing at most one emotion
StreamFrames == Frames(1, 1)

Alphas == {Zero, DefaultSmoothingFactor, One}

\* "happy" is listed positive and neutral, "sad" positive and negative
ConflictWeights ==
    [positive |-> <<"happy", "sad">>, neutral |-> <<"happy">>, negative |-> <<"sad">>]

\* "sad" is in no category
PositiveOnlyWeights ==
    [positive |-> <<"happy">>, neutral |-> <<>>, negative |-> <<>>]

WeightChoices == {DefaultWeights, ConflictWeights, PositiveOnlyWeights}

NoSummary ==
    [raw_score |-> None, smoothed_score |-> None, rolling_average |-> None,
     dominant_emotion |-> Absent, emotion_distribution |-> <<>>]

----------------------------------------------------------------------------
(* EngagementTracker.__init__ and update as actions *)

NewTracker(cfg) ==
    /\ config = cfg
    /\ scores = <<>>
    /\ smoothed_score = None
    /\ summary = NoSummary
    /\ detections = <<>>
    /\ nCalls = 0
    /\ raws = <<>>

DoUpdate(dets) ==
    \E r \in {update(config, scores, smoothed_score, dets)} :
        /\ scores' = r.scores
        /\ smoothed_score' = r.smoothed_score
        /\ summary' = r.summary
        /\ detections' = dets
        /\ nCalls' = nCalls + 1
        /\ raws' = Append(raws, r.summary.raw_score)
        /\ UNCHANGED config

\* the variables of an operation that is not running
NoMerge ==
    /\ base = DefaultWeights
    /\ overrides = [is_none |-> TRUE, items |-> <<>>]
    /\ merged = None

NoRun ==
    /\ pc = "idle"
    /\ display = FALSE
    /\ frame_counter = 0
    /\ max_frames = None
    /\ log_writer = FALSE
    /\ stream_len = 0
    /\ reads = 0
    /\ read_failed = FALSE
    /\ frame_dets = <<>>
    /\ updates = <<>>
    /\ log_rows = <<>>
    /\ render_log = <<>>
    /\ released = {}

Init ==
    /\ \E a \in Alphas, h \in 1..MaxHistory, w \in WeightChoices :
          NewTracker([smoothing_factor |-> a, history_size |-> h, emotion_weights |-> w])
    /\ NoMerge
    /\ NoRun

Update ==
    /\ nCalls < MaxUpdates
    /\ \E dets \in StreamFrames : DoUpdate(dets)
    /\ UNCHANGED <<mergeVars, runVars>>

Next == Update

Spec == Init /\ [][Next]_vars

InitFrame ==
    /\ \E w \in WeightChoices :
          NewTracker([smoothing_factor |-> DefaultSmoothingFactor,
                      history_size |-> DefaultHistorySize, emotion_weights |-> w])
    /\ NoMerge
    /\ NoRun

UpdateFrame ==
    /\ nCalls = 0
    /\ \E dets \in FrameSet : DoUpdate(dets)
    /\ UNCHANGED <<mergeVars, runVars>>

NextFrame == UpdateFrame

SpecFrame == InitFrame /\ [][NextFrame]_vars

----------------------------------------------------------------------------
(* merge_emotion_weights as an operation *)

\* lists of at most n names, duplicates and mixed case allowed
RECURSIVE NameLists(_)
NameLists(n) ==
    IF n = 0 THEN {<<>>}
    ELSE NameLists(n - 1) \cup {Append(l, x) : l \in {m \in NameLists(n - 1) : Len(m) = n - 1}, x \in Names}

OverrideChoices ==
    {[is_none |-> TRUE, items |-> <<>>]} \cup
    {[is_none |-> FALSE, items |-> f] :
        f \in UNION {[D -> NameLists(MaxNames)] : D \in SUBSET Categories}}

\* a category written in mixed case
MixedCaseWeights ==
    [positive |-> <<"Happy">>, neutral |-> <<>>, negative |-> <<"sad">>]

BaseChoices == WeightChoices \cup {MixedCaseWeights}

IdleTracker ==
    NewTracker([smoothing_factor |-> DefaultSmoothingFactor,
                history_size |-> DefaultHistorySize, emotion_weights |-> DefaultWeights])

InitMerge ==
    /\ base \in BaseChoices
    /\ overrides \in OverrideChoices
    /\ merged = None
    /\ IdleTracker
    /\ NoRun

Merge ==
    /\ merged = None
    /\ merged' = merge_emotion_weights(base, overrides)
    /\ UNCHANGED <<base, overrides, trackerVars, runVars>>

NextMerge == Merge

SpecMerge == InitMerge /\ [][NextMerge]_vars

----------------------------------------------------------------------------
(* main.py: run.  One action per straight-line piece of the frame loop.     *)
(* The clock of the console printer and the pixels are not state: printing  *)
(* changes nothing the loop reads, and the detector's answer is any frame   *)
(* of StreamFrames.                                                         *)

\* EmotionAnalyzer.detect: the names of every result lowercased
detect(results) ==
    [i \in 1..Len(results) |->
        [j \in 1..Len(results[i]) |->
            Entry(Lower(results[i][j].emotion), results[i][j].intensity)]]

\* _prepare_tracker: the default weights, merged with the overrides of the command line
CommandLineOverrides ==
    {[is_none |-> FALSE, items |-> <<>>],
     [is_none |-> FALSE, items |-> [positive |-> <<"sad">>]]}

prepare_tracker(o) ==
    NewTracker([smoothing_factor |-> DefaultSmoothingFactor,
                history_size     |-> DefaultHistorySize,
                emotion_weights  |-> IF DOMAIN o.items # {}
                                     THEN merge_emotion_weights(DefaultWeights, o)
                                     ELSE DefaultWeights])

\* run, up to the try statement
InitRun ==
    /\ \E o \in CommandLineOverrides : prepare_tracker(o)
    /\ NoMerge
    /\ pc = "check"
    /\ display \in BOOLEAN
    /\ frame_counter = 0
    /\ max_frames \in {None} \cup {<<n>> : n \in 0..MaxStream}
    /\ log_writer \in BOOLEAN
    /\ stream_len \in 0..MaxStream
    /\ reads = 0
    /\ read_failed = FALSE
    /\ frame_dets = <<>>
    /\ updates = <<>>
    /\ log_rows = <<>>
    /\ render_log = <<>>
    /\ released = {}

CheckLimit_off_by_one ==
    /\ pc = "check"
    /\ pc' = IF max_frames # None /\ frame_counter > max_frames[1] THEN "finally" ELSE "read"
    /\ UNCHANGED <<display, frame_counter, max_frames, log_writer, stream_len, reads,
                   read_failed, frame_dets, updates, log_rows, render_log, released>>
    /\ UNCHANGED <<trackerVars, mergeVars>>

\* if parsed_args.max_frames is not None and frame_counter >= parsed_args.max_frames: break
CheckLimit ==
    /\ pc = "check"
    /\ pc' = IF max_frames # None /\ frame_counter >= max_frames[1] THEN "finally" ELSE "read"
    /\ UNCHANGED <<display, frame_counter, max_frames, log_writer, stream_len, reads,
                   read_failed, frame_dets, updates, log_rows, render_log, released>>
    /\ UNCHANGED <<trackerVars, mergeVars>>

\* capture.read(), the test of its result, cvtColor and analyzer.detect
ReadFrame ==
    /\ pc = "read"
    /\ IF reads < stream_len
       THEN /\ reads' = reads + 1
            /\ \E results \in StreamFrames : frame_dets' = detect(results)
            /\ pc' = "update"
            /\ UNCHANGED read_failed
       ELSE /\ read_failed' = TRUE
            /\ pc' = "finally"
            /\ UNCHANGED <<reads, frame_dets>>
    /\ UNCHANGED <<display, frame_counter, max_frames, log_writer, stream_len,
                   updates, log_rows, render_log, released>>
    /\ UNCHANGED <<trackerVars, mergeVars>>

\* summary = tracker.update(detections)
TrackerUpdate ==
    /\ pc = "update"
    /\ DoUpdate(frame_dets)
    /\ updates' = Append(updates, reads)
    /\ pc' = "log"
    /\ UNCHANGED <<display, frame_counter, max_frames, log_writer, stream_len, reads,
                   read_failed, frame_dets, log_rows, render_log, released>>
    /\ UNCHANGED mergeVars

\* _log_frame(log_writer, summary, detections), then the rate-limited console print
LogFrame ==
    /\ pc = "log"
    /\ log_rows' = IF log_writer
                   THEN Append(log_rows, [frame |-> reads, summary |-> summary,
                                          faces_detected |-> Len(frame_dets)])
                   ELSE log_rows
    /\ pc' = "display"
    /\ UNCHANGED <<display, frame_counter, max_frames, log_writer, stream_len, reads,
                   read_failed, frame_dets, updates, render_log, released>>
    /\ UNCHANGED <<trackerVars, mergeVars>>

Display_error_ends ==
    /\ pc = "display"
    /\ IF display
       THEN \E outcome \in {"shown", "quit", "error"} :
               /\ render_log' = Append(render_log, [frame |-> reads, outcome |-> outcome])
               /\ display' = (outcome # "error")
               /\ pc' = IF outcome = "shown" THEN "count" ELSE "finally"
       ELSE /\ pc' = "count"
            /\ UNCHANGED <<display, render_log>>
    /\ UNCHANGED <<frame_counter, max_frames, log_writer, stream_len, reads,
                   read_failed, frame_dets, updates, log_rows, released>>
    /\ UNCHANGED <<trackerVars, mergeVars>>

\* if display: try: draw_detections, imshow, waitKey and the quit keys
\*             except cv2.error: display = False
Display ==
    /\ pc = "display"
    /\ IF display
       THEN \E outcome \in {"shown", "quit", "error"} :
               /\ render_log' = Append(render_log, [frame |-> reads, outcome |-> outcome])
               /\ display' = (outcome # "error")
               /\ pc' = IF outcome = "quit" THEN "finally" ELSE "count"
       ELSE /\ pc' = "count"
            /\ UNCHANGED <<display, render_log>>
    /\ UNCHANGED <<frame_counter, max_frames, log_writer, stream_len, reads,
                   read_failed, frame_dets, updates, log_rows, released>>
    /\ UNCHANGED <<trackerVars, mergeVars>>

\* frame_counter += 1
CountFrame ==
    /\ pc = "count"
    /\ frame_counter' = frame_counter + 1
    /\ pc' = "check"
    /\ UNCHANGED <<display, max_frames, log_writer, stream_len, reads,
                   read_failed, frame_dets, updates, log_rows, render_log, released>>
    /\ UNCHANGED <<trackerVars, mergeVars>>

\* finally: capture.release(), destroyAllWindows() if display, log_handle.close()
Finally ==
    /\ pc = "finally"
    /\ released' = {"capture"} \cup (IF display THEN {"windows"} ELSE {})
                              \cup (IF log_writer THEN {"log_handle"} ELSE {})
    /\ pc' = "done"
    /\ UNCHANGED <<display, frame_counter, max_frames, log_writer, stream_len, reads,
                   read_failed, frame_dets, updates, log_rows, render_log>>
    /\ UNCHANGED <<trackerVars, mergeVars>>

NextRun ==
    \/ CheckLimit
    \/ ReadFrame
    \/ TrackerUpdate
    \/ LogFrame
    \/ Display
    \/ CountFrame
    \/ Finally

SpecRun == InitRun /\ [][NextRun]_vars

----------------------------------------------------------------------------
(* Vocabulary of the properties, defined from the inputs and not from the   *)
(* operators above                                                          *)

LastK(s, k) == SubSeq(s, Len(s) - k + 1, Len(s))

In01(x) == RLe(Zero, x) /\ RLe(x, One)

AllEmpty(dets) == \A i \in 1..Len(dets) : dets[i] = <<>>

\* every entry of the frame, detections in list order, each mapping in its order
RECURSIVE Flatten(_)
Flatten(dets) == IF dets = <<>> THEN <<>> ELSE Head(dets) \o Flatten(Tail(dets))

\* intensity accumulated by the lowercased name e over the first n entries
RECURSIVE AccUpTo(_, _, _)
AccUpTo(flat, e, n) ==
    IF n = 0 THEN 0
    ELSE AccUpTo(flat, e, n - 1) + (IF Lower(flat[n].emotion) = e THEN flat[n].intensity ELSE 0)

Acc(dets, e) == AccUpTo(Flatten(dets), e, Len(Flatten(dets)))

Seen(dets) == {Lower(Flatten(dets)[i].emotion) : i \in 1..Len(Flatten(dets))}

FirstPos(dets, e) ==
    CHOOSE i \in 1..Len(Flatten(dets)) :
        /\ Lower(Flatten(dets)[i].emotion) = e
        /\ \A j \in 1..(i - 1) : Lower(Flatten(dets)[j].emotion) # e

\* intensity of the first n entries, whatever their names
RECURSIVE IntensityUpTo(_, _)
IntensityUpTo(flat, n) ==
    IF n = 0 THEN 0 ELSE IntensityUpTo(flat, n - 1) + flat[n].intensity

TotalIntensity(dets) == IntensityUpTo(Flatten(dets), Len(Flatten(dets)))

\* the weight the documentation gives a lowercased name
DocWeight(w, e) ==
    IF e \in Range(w.negative) THEN Zero
    ELSE IF e \in Range(w.neutral) THEN Half
    ELSE IF e \in Range(w.positive) THEN One
    ELSE Half

RECURSIVE DocWeightedSum(_, _, _)
DocWeightedSum(w, emotions, n) ==
    IF n = 0 THEN Zero
    ELSE RAdd(DocWeightedSum(w, emotions, n - 1),
              RMul(DocWeight(w, Lower(emotions[n].emotion)), Num(emotions[n].intensity)))

RECURSIVE ShareSum(_, _)
ShareSum(dist, n) == IF n = 0 THEN Zero ELSE RAdd(ShareSum(dist, n - 1), dist[n].share)

DistributionSumsToOne ==
    /\ summary.emotion_distribution # <<>>
    /\ ShareSum(summary.emotion_distribution, Len(summary.emotion_distribution)) = One

DominantIsArgmax ==
    \E i \in 1..Len(summary.emotion_distribution) :
        /\ summary.emotion_distribution[i].emotion = summary.dominant_emotion
        /\ \A j \in 1..Len(summary.emotion_distribution) :
              RLe(summary.emotion_distribution[j].share, summary.emotion_distribution[i].share)

----------------------------------------------------------------------------
(* C1: for history_size H >= 1, after n >= 1 updates the rolling history is  *)
(* exactly the raw scores of the last min(n, H) updates in call order (never *)
(* longer than H), and the returned rolling_average is their arithmetic mean *)
C1_RollingWindow ==
    nCalls >= 1 =>
        LET k == Min(nCalls, config.history_size)
        IN  /\ scores = LastK(raws, k)
            /\ Len(scores) <= config.history_size
            /\ RMul(summary.rolling_average, Num(k)) = RSum(LastK(raws, k))

\* one more update than the window holds, and dropping the oldest changed the mean
C1_Witness ==
    /\ nCalls = config.history_size + 1
    /\ raws[1] = One
    /\ summary.rolling_average # RDiv(RSum(raws), Num(Len(raws)))

(* C2: the first update sets smoothed_score to that frame's raw_score, every *)
(* later update sets it to (1 - alpha) * previous + alpha * raw_score, the   *)
(* initialisation happens once even when the first raw_score is 0.0, and the *)
(* FrameSummary carries the stored value                                     *)
C2_Smoothing ==
    [][nCalls' = nCalls + 1 =>
        /\ smoothed_score' =
              IF nCalls = 0 THEN summary'.raw_score
              ELSE RAdd(RMul(RSub(One, config.smoothing_factor), smoothed_score),
                        RMul(config.smoothing_factor, summary'.raw_score))
        /\ summary'.smoothed_score = smoothed_score']_vars

\* second update after a first raw_score of 0.0: 0.8 * 0 + 0.2 * 1
C2_Witness ==
    /\ nCalls = 2
    /\ raws = <<Zero, One>>
    /\ config.smoothing_factor = <<1, 5>>
    /\ smoothed_score = <<1, 5>>

(* C3 as first stated: whenever some detection has a non-empty mapping, the  *)
(* distribution is non-empty, sums to 1.0 and dominant_emotion is its argmax *)
C3_Original ==
    (nCalls >= 1 /\ ~AllEmpty(detections)) =>
        (DistributionSumsToOne /\ DominantIsArgmax)

(* C3: whenever some detection has a non-empty mapping and the intensity     *)
(* accumulated over the frame is > 0, the distribution is non-empty, sums to *)
(* 1.0 and dominant_emotion is a key with the largest value in it            *)
C3_Distribution ==
    (nCalls >= 1 /\ ~AllEmpty(detections) /\ TotalIntensity(detections) > 0) =>
        (DistributionSumsToOne /\ DominantIsArgmax)

C3_Witness ==
    /\ nCalls = 1
    /\ detections = << <<Entry("happy", 2)>>, <<Entry("sad", 1)>> >>
    /\ summary.emotion_distribution =
          << [emotion |-> "happy", share |-> <<2, 3>>], [emotion |-> "sad", share |-> <<1, 3>>] >>
    /\ summary.dominant_emotion = "happy"

(* C4: each category named in overrides comes back as the lowercased,       *)
(* deduplicated set of the supplied names, every category not named comes    *)
(* back unchanged from base, and empty or absent overrides return base       *)
C4_Merge ==
    merged # None =>
        /\ \A c \in Categories :
              IF ~overrides.is_none /\ c \in DOMAIN overrides.items
              THEN /\ Range(merged[c]) =
                        {Lower(overrides.items[c][i]) : i \in 1..Len(overrides.items[c])}
                   /\ Cardinality(Range(merged[c])) = Len(merged[c])
              ELSE merged[c] = base[c]
        /\ (overrides.is_none \/ DOMAIN overrides.items = {}) => merged = base

(* C5: one detection with a non-empty mapping and total intensity > 0 gives  *)
(* raw_score = sum(weight * score) / sum(score), weight being 1.0 positive,  *)
(* 0.5 neutral or unmapped, 0.0 negative for the lowercased name, negative   *)
(* (then neutral) winning on conflict; raw_score lies between the smallest   *)
(* and the largest weight of the emotions present                            *)
C5_WeightedMean ==
    (nCalls >= 1 /\ Len(detections) = 1 /\ detections[1] # <<>>
        /\ TotalIntensity(detections) > 0) =>
        LET emotions == detections[1]
            w == config.emotion_weights
        IN  /\ RMul(summary.raw_score, Num(TotalIntensity(detections)))
                  = DocWeightedSum(w, emotions, Len(emotions))
            /\ \E i \in 1..Len(emotions) :
                  RLe(DocWeight(w, Lower(emotions[i].emotion)), summary.raw_score)
            /\ \E i \in 1..Len(emotions) :
                  RLe(summary.raw_score, DocWeight(w, Lower(emotions[i].emotion)))

\* "happy" positive and neutral, "sad" positive and negative: (0.5 * 2 + 0.0 * 1) / 3
C5_Witness ==
    /\ nCalls = 1
    /\ config.emotion_weights = ConflictWeights
    /\ detections = << <<Entry("Happy", 2), Entry("sad", 1)>> >>
    /\ summary.raw_score = <<1, 3>>

(* C6: in every tracker state an update with an empty detection list, or one *)
(* whose detections all have empty mappings, returns raw_score 0.0, no       *)
(* dominant emotion and an empty distribution, appends 0.0 to the rolling    *)
(* history and feeds 0.0 into the smoothing step                             *)
C6_EmptyFrame ==
    [][(nCalls' = nCalls + 1 /\ AllEmpty(detections')) =>
        /\ summary'.raw_score = Zero
        /\ summary'.dominant_emotion = Absent
        /\ summary'.emotion_distribution = <<>>
        /\ scores' = LastK(Append(scores, Zero), Min(Len(scores) + 1, config.history_size))
        /\ smoothed_score' =
              IF nCalls = 0 THEN Zero
              ELSE RMul(RSub(One, config.smoothing_factor), smoothed_score)]_vars

\* a face with an empty mapping after a frame that scored 1.0: 0.8 * 1 + 0.2 * 0
C6_Witness ==
    /\ nCalls = 2
    /\ detections = << <<>> >>
    /\ scores = <<One, Zero>>
    /\ smoothed_score = <<4, 5>>

(* C7: when the intensity accumulated over the frame is > 0, dominant_emotion *)
(* is a lowercased name whose accumulated intensity is the largest, and among *)
(* several with the largest it is the one met first when scanning the        *)
(* detections in list order and each mapping in its own order                *)
C7_Dominant ==
    (nCalls >= 1 /\ TotalIntensity(detections) > 0) =>
        LET d == summary.dominant_emotion
        IN  /\ d \in Seen(detections)
            /\ \A e \in Seen(detections) :
                  /\ Acc(detections, e) <= Acc(detections, d)
                  /\ (e # d /\ Acc(detections, e) = Acc(detections, d))
                        => FirstPos(detections, d) < FirstPos(detections, e)

\* a tie between "sad" and the case-folded "Happy" of a later detection
C7_Witness ==
    /\ nCalls = 1
    /\ detections = << <<Entry("sad", 1)>>, <<Entry("Happy", 1)>> >>
    /\ summary.dominant_emotion = "sad"

Ended == pc \in {"finally", "done"}

LimitReached == max_frames # None /\ frame_counter >= max_frames[1]

QuitPressed == render_log # <<>> /\ render_log[Len(render_log)].outcome = "quit"

(* C8: a rendering failure on some frame never ends the run: the frame is    *)
(* still counted, the run goes headless, no later frame attempts rendering   *)
(* or key polling, and every later frame read successfully is still passed   *)
(* to tracker.update and logged, until stream end or --max-frames            *)
C8_RenderFailure ==
    \A i \in 1..Len(render_log) :
        render_log[i].outcome = "error" =>
            LET f == render_log[i].frame
            IN  /\ i = Len(render_log)
                /\ display = FALSE
                /\ \/ pc = "count" /\ reads = f /\ frame_counter = f - 1
                   \/ frame_counter >= f
                /\ \A g \in (f + 1)..reads :
                      /\ (g \in Range(updates)) \/ (g = reads /\ pc = "update")
                      /\ log_writer =>
                            \/ \E r \in 1..Len(log_rows) : log_rows[r].frame = g
                            \/ g = reads /\ pc \in {"update", "log"}
                /\ Ended => (read_failed \/ LimitReached)

\* the first frame failed to render, two more frames went through, the stream ended
C8_Witness ==
    /\ pc = "done"
    /\ render_log = <<[frame |-> 1, outcome |-> "error"]>>
    /\ read_failed
    /\ frame_counter = 3
    /\ updates = <<1, 2, 3>>
    /\ Len(log_rows) = 3

(* C9: tracker.update is called exactly once per successfully read frame, in *)
(* read order and before that frame's log row; with --max-frames n at most n *)
(* times; the loop ends exactly at the first failed read, when n frames have *)
(* been counted, or on a quit key, and no update follows                     *)
C9_OncePerFrame ==
    /\ updates = [i \in 1..Len(updates) |-> i]
    /\ Len(updates) = IF pc = "update" THEN reads - 1 ELSE reads
    /\ nCalls = Len(updates)
    /\ \A i \in 1..Len(log_rows) :
          /\ log_rows[i].frame = i
          /\ i <= Len(updates)
          /\ log_rows[i].summary.raw_score = raws[i]
    /\ log_writer => Len(log_rows) = IF pc \in {"update", "log"} THEN reads - 1 ELSE reads
    /\ max_frames # None =>
          /\ Len(updates) <= max_frames[1]
          /\ frame_counter <= max_frames[1]
          /\ frame_counter = max_frames[1] => pc \in {"check", "finally", "done"}
    /\ read_failed => (Ended /\ Len(updates) = stream_len)
    /\ QuitPressed => (Ended /\ Len(updates) = render_log[Len(render_log)].frame)
    /\ Ended => (read_failed \/ LimitReached \/ QuitPressed)

\* --max-frames 2 on a stream of three frames
C9_Witness ==
    /\ pc = "done"
    /\ max_frames = <<2>>
    /\ stream_len = 3
    /\ updates = <<1, 2>>
    /\ Len(log_rows) = 2
    /\ ~read_failed

(* C10: with smoothing_factor in [0,1], history_size >= 1, weights in        *)
(* {0.0, 0.5, 1.0} and non-negative intensities, every returned raw_score,   *)
(* smoothed_score and rolling_average lies in [0, 1], and so does every      *)
(* value of the rolling history and the stored smoothed score                *)
C10_UnitInterval ==
    nCalls >= 1 =>
        /\ In01(summary.raw_score)
        /\ In01(summary.smoothed_score)
        /\ In01(summary.rolling_average)
        /\ \A i \in 1..Len(scores) : In01(scores[i])
        /\ In01(smoothed_score)

\* the smoothed score strictly inside the interval while the frame scores 1.0
C10_Witness ==
    /\ nCalls = 3
    /\ summary.raw_score = One
    /\ RLt(Zero, smoothed_score) /\ RLt(smoothed_score, One)
    /\ RLt(Zero, summary.rolling_average) /\ RLt(summary.rolling_average, One)

====
